---- MODULE Spec2Model ----
(***************************************************************************)
(* NetGuard WFP callout driver (driver/netguard_wfp.c).                    *)
(*                                                                         *)
(* The model follows g_Context: the Enabled flag, the PendingConnections   *)
(* array with PendingCount, the AllowedApps array with AllowedCount, the   *)
(* two spin locks and the three statistics counters.  A step is one access *)
(* to shared memory together with the local computation around it: the     *)
(* read of Enabled, a KeAcquireSpinLock, a critical section with its       *)
(* KeReleaseSpinLock, an InterlockedIncrement64.  Spec runs one            *)
(* NetGuardClassifyFn context against one NetGuardDeviceControl context;   *)
(* SpecConcurrent runs two classify contexts against it, SpecQueue does so *)
(* while the registry stays empty, and SpecFair adds the scheduling        *)
(* assumptions under which progress is checked.                            *)
(***************************************************************************)
EXTENDS Integers, Sequences, FiniteSets, TLC

(* ------------------------------------------------------------------ *)
(* Sizes.  The two array capacities are scaled down from 256 and 1024  *)
(* so that "full" is reachable; the byte sizes are the real ones.      *)
(* ------------------------------------------------------------------ *)
MAX_PENDING_CONNECTIONS == 2
MAX_ALLOWED_APPS == 2
MAX_PATH_LENGTH == 512

\* sizeof(PENDING_CONNECTION) on x64: 8 + 4 + 1024 + 4 + 2 (+6) + 8 + 1 + 1 (+6)
SizeofPendingConnection == 1064
\* sizeof(ALLOWED_APP): 1024 + 1 (+1)
SizeofAllowedApp == 1026
\* sizeof(UINT64) + sizeof(BOOLEAN)
SizeofRespondInput == 9

\* No classification starts once the three statistics counters and the
\* classifications in flight add up to this many
MaxCalls == 3

\* execution contexts: two callers of NetGuardClassifyFn and the caller of
\* NetGuardDeviceControl; NoHolder is the state of a free spin lock
ClassifyContexts == {"classify1", "classify2"}
FirstContext == "classify1"
ControlContext == "control"
NoHolder == "none"

(* ------------------------------------------------------------------ *)
(* Inputs                                                              *)
(* ------------------------------------------------------------------ *)
\* WCHAR strings as sequences of code units: "A", "a", "b"
PathUpperA == <<65>>
PathLowerA == <<97>>
PathLowerB == <<98>>
\* paths the interception hook delivers
ClassifyPaths == {PathLowerA}
\* records the agent registers: the classified path in another case with either
\* verdict, and a path that is never classified
RegistryInputs ==
    {[processPath |-> PathUpperA, blocked |-> FALSE],
     [processPath |-> PathUpperA, blocked |-> TRUE],
     [processPath |-> PathLowerB, blocked |-> TRUE]}
\* idle process, System process, a user process
ProcessIds == {0, 4, 100}
RemoteIps == {167772161}
RemotePorts == {443}
Timestamps == {1}

RespondInputLengths == {SizeofRespondInput - 1, SizeofRespondInput}
AddInputLengths == {SizeofAllowedApp - 1, SizeofAllowedApp}
OutputLengths == {0, SizeofPendingConnection + 1,
                  MAX_PENDING_CONNECTIONS * SizeofPendingConnection}
ConnectionIds == 1..MaxCalls

(* ------------------------------------------------------------------ *)
(* Records                                                             *)
(* ------------------------------------------------------------------ *)
\* a zeroed ALLOWED_APP slot (RtlZeroMemory in DriverEntry)
ZeroApp == [processPath |-> <<>>, blocked |-> FALSE]

\* arguments and locals of a NetGuardClassifyFn invocation that has not started;
\* enabledSeen is the value line 190 read
NoCall ==
    [processId |-> 0, processPath |-> <<>>, remoteIp |-> 0, remotePort |-> 0,
     enabledSeen |-> FALSE, actionType |-> "NONE", rightsActionWrite |-> TRUE,
     found |-> FALSE, isBlocked |-> FALSE, connId |-> 0]

\* the request of a NetGuardDeviceControl invocation that has not started;
\* matched tells that the scan of line 419 hit
NoIrp ==
    [code |-> "NONE", inputLength |-> 0, outputLength |-> 0, connId |-> 0,
     allowed |-> FALSE, newApp |-> ZeroApp, status |-> "NONE",
     bytesReturned |-> 0, matched |-> FALSE]

VARIABLES
    Enabled,              \* g_Context.Enabled
    PendingConnections,   \* g_Context.PendingConnections[0 .. PendingCount-1]
    PendingCount,         \* g_Context.PendingCount
    PendingLock,          \* holder of g_Context.PendingLock, NoHolder when free
    PendingEvent,         \* g_Context.PendingEvent is signalled
    AllowedApps,          \* g_Context.AllowedApps, indexed 1..MAX
    AllowedCount,         \* g_Context.AllowedCount
    AllowedLock,          \* holder of g_Context.AllowedLock
    TotalConnections,     \* g_Context.TotalConnections
    BlockedConnections,   \* g_Context.BlockedConnections
    AllowedConnections,   \* g_Context.AllowedConnections
    pc,                   \* position of every execution context
    call,                 \* locals of each NetGuardClassifyFn invocation
    irp,                  \* the request the control context is serving
    admitLog,             \* history: every record AddPendingConnection stored
    respondedIds          \* history: ids removed by IOCTL_NETGUARD_RESPOND

queueVars == <<PendingConnections, PendingCount>>
registryVars == <<AllowedApps, AllowedCount>>
counterVars == <<TotalConnections, BlockedConnections, AllowedConnections>>
lockVars == <<PendingLock, AllowedLock>>
histVars == <<admitLog, respondedIds>>
vars == <<Enabled, PendingConnections, PendingCount, PendingLock, PendingEvent,
          AllowedApps, AllowedCount, AllowedLock, TotalConnections,
          BlockedConnections, AllowedConnections, pc, call, irp, admitLog,
          respondedIds>>

(* ------------------------------------------------------------------ *)
(* Pure helpers                                                        *)
(* ------------------------------------------------------------------ *)
Min(a, b) == IF a < b THEN a ELSE b

\* towlower on the ASCII range
ToLower(c) == IF c >= 65 /\ c <= 90 THEN c + 32 ELSE c

\* the code unit at position i of a NUL-terminated string
CharAt(s, i) == IF i <= Len(s) THEN s[i] ELSE 0

RECURSIVE WcsicmpFrom(_, _, _)
WcsicmpFrom(s1, s2, i) ==
    LET c1 == ToLower(CharAt(s1, i))
        c2 == ToLower(CharAt(s2, i))
    IN  IF c1 # c2 THEN c1 - c2
        ELSE IF c1 = 0 THEN 0
        ELSE WcsicmpFrom(s1, s2, i + 1)

\* _wcsicmp: 0 when the strings are equal ignoring case
Wcsicmp(s1, s2) == WcsicmpFrom(s1, s2, 1)

\* copy of at most MAX_PATH_LENGTH - 1 code units into a zeroed buffer
CopyPath(p) == SubSeq(p, 1, Min(Len(p), MAX_PATH_LENGTH - 1))

\* indices of the active registry entries that match a path
MatchingApps(path) ==
    {i \in 1..AllowedCount : Wcsicmp(AllowedApps[i].processPath, path) = 0}

\* faulty variant: the scan does not stop at the first match, the last one wins
FirstMatch_Last(path) ==
    IF MatchingApps(path) = {} THEN 0
    ELSE CHOOSE i \in MatchingApps(path) : \A j \in MatchingApps(path) : i >= j

\* the scan of IsAppInList: index of the first match, 0 when there is none
FirstMatch(path) ==
    IF MatchingApps(path) = {} THEN 0
    ELSE CHOOSE i \in MatchingApps(path) : \A j \in MatchingApps(path) : i <= j

\* The pending array is kept as its slots below PendingCount.  No code reads a
\* slot at or above PendingCount: AddPendingConnection overwrites slot
\* [PendingCount] whole (lines 150-159), GET_PENDING copies at most
\* PendingCount records (line 399) and RESPOND scans i < PendingCount (line 418).
ActiveSlots(slots, count) == [i \in 1..count |-> slots[i]]

\* the array with slot i written
StoreAt(slots, i, conn) ==
    [j \in (DOMAIN slots) \cup {i} |-> IF j = i THEN conn ELSE slots[j]]

ActiveIds == {PendingConnections[i].connectionId : i \in 1..PendingCount}

\* faulty variant: a scan that finds nothing ends on the first slot
RespondIndex_FirstOnMiss(connId) ==
    LET hits == {i \in 1..PendingCount : PendingConnections[i].connectionId = connId}
    IN  IF hits = {} THEN (IF PendingCount > 0 THEN 1 ELSE 0)
        ELSE CHOOSE i \in hits : \A j \in hits : i <= j

\* the scan of IOCTL_NETGUARD_RESPOND: index of the first active slot with the id
RespondIndex(connId) ==
    LET hits == {i \in 1..PendingCount : PendingConnections[i].connectionId = connId}
    IN  IF hits = {} THEN 0 ELSE CHOOSE i \in hits : \A j \in hits : i <= j

InFlight == Cardinality({t \in ClassifyContexts : pc[t] \notin {"idle", "done"}})

(* ------------------------------------------------------------------ *)
(* Initial state: DriverEntry                                          *)
(* ------------------------------------------------------------------ *)
Init ==
    /\ Enabled = FALSE
    /\ PendingConnections = <<>>
    /\ PendingCount = 0
    /\ PendingLock = NoHolder
    /\ PendingEvent = FALSE
    /\ AllowedApps = [i \in 1..MAX_ALLOWED_APPS |-> ZeroApp]
    /\ AllowedCount = 0
    /\ AllowedLock = NoHolder
    /\ TotalConnections = 0
    /\ BlockedConnections = 0
    /\ AllowedConnections = 0
    /\ pc = [t \in ClassifyContexts \cup {ControlContext} |-> "idle"]
    /\ call = [t \in ClassifyContexts |-> NoCall]
    /\ irp = NoIrp
    /\ admitLog = <<>>
    /\ respondedIds = {}

(* ------------------------------------------------------------------ *)
(* NetGuardClassifyFn                                                  *)
(* ------------------------------------------------------------------ *)
\* faulty variant: the Enabled test is missing
ReturnsWhenDisabled_Never(enabled) == FALSE

\* line 190: the early return on the Enabled flag
ReturnsWhenDisabled(enabled) == ~enabled

\* faulty variant: only the idle process is exempt
IsSystemProcess_IdleOnly(processId) == processId = 0

\* line 214: the system processes that are never filtered
IsSystemProcess(processId) == processId = 0 \/ processId = 4

\* lines 233-237: the verdict after AddPendingConnection returned connId
VerdictAfterAdmit(connId) == IF connId > 0 THEN "BLOCK" ELSE "PERMIT"

\* faulty variant: the capacity test is off by one
HasFreeSlot_OffByOne(count) == count <= MAX_PENDING_CONNECTIONS

\* line 149: the capacity test of AddPendingConnection
HasFreeSlot(count) == count < MAX_PENDING_CONNECTIONS

\* faulty variant: the id is the slot number instead of the running counter
NextConnectionId_FromSlot(total) == PendingCount + 1

\* faulty variant: the value before the increment is taken as the id
NextConnectionId_Old(total) == total

\* faulty variant: the counter is incremented twice for an admission
NextConnectionId_Twice(total) == total + 2

\* line 152: InterlockedIncrement64 on TotalConnections returns the new value
NextConnectionId(total) == total + 1

\* lines 188-216: default verdict, Enabled test, metadata, system-process test
ClassifyBegin(t, processId, path, ip, port) ==
    /\ pc[t] = "idle"
    /\ TotalConnections + BlockedConnections + AllowedConnections + InFlight
           < MaxCalls
    /\ call' = [call EXCEPT ![t] =
                  IF ReturnsWhenDisabled(Enabled)
                  THEN [NoCall EXCEPT !.actionType = "PERMIT",
                                      !.processId = processId]
                  ELSE [NoCall EXCEPT !.actionType = "PERMIT",
                                      !.enabledSeen = TRUE,
                                      !.processId = processId,
                                      !.processPath = CopyPath(path),
                                      !.remoteIp = ip,
                                      !.remotePort = port]]
    /\ pc' = [pc EXCEPT ![t] =
                IF ReturnsWhenDisabled(Enabled) \/ IsSystemProcess(processId)
                THEN "done" ELSE "lookup"]
    /\ UNCHANGED <<Enabled, queueVars, PendingEvent, registryVars, counterVars,
                   lockVars, irp, histVars>>

\* IsAppInList line 128: KeAcquireSpinLock(&AllowedLock)
ClassifyAcquireAllowedLock(t) ==
    /\ pc[t] = "lookup"
    /\ AllowedLock = NoHolder
    /\ AllowedLock' = t
    /\ pc' = [pc EXCEPT ![t] = "inList"]
    /\ UNCHANGED <<Enabled, queueVars, PendingEvent, registryVars, counterVars,
                   PendingLock, call, irp, histVars>>

\* lines 221-223: the verdict a registry entry gives
VerdictOfEntry(isBlocked) == IF isBlocked THEN "BLOCK" ELSE "PERMIT"

\* faulty variant: the scan returns without KeReleaseSpinLock
ClassifyLookup_KeepLock(t) ==
    /\ pc[t] = "inList"
    /\ AllowedLock = t
    /\ LET i == FirstMatch(call[t].processPath)
           isBlocked == IF i # 0 THEN AllowedApps[i].blocked ELSE FALSE
       IN  /\ call' = [call EXCEPT
                         ![t].found = (i # 0),
                         ![t].isBlocked = isBlocked,
                         ![t].actionType =
                             IF i # 0 THEN VerdictOfEntry(isBlocked) ELSE @,
                         ![t].rightsActionWrite =
                             IF i # 0 /\ VerdictOfEntry(isBlocked) = "BLOCK"
                             THEN FALSE ELSE @]
           /\ pc' = [pc EXCEPT ![t] = IF i # 0 THEN "count" ELSE "admit"]
    /\ UNCHANGED <<Enabled, queueVars, PendingEvent, registryVars, counterVars,
                   lockVars, irp, histVars>>

\* IsAppInList lines 130-139, the test of line 220 and the verdict of lines
\* 221-223
ClassifyLookup(t) ==
    /\ pc[t] = "inList"
    /\ AllowedLock = t
    /\ LET i == FirstMatch(call[t].processPath)
           isBlocked == IF i # 0 THEN AllowedApps[i].blocked ELSE FALSE
       IN  /\ call' = [call EXCEPT
                         ![t].found = (i # 0),
                         ![t].isBlocked = isBlocked,
                         ![t].actionType =
                             IF i # 0 THEN VerdictOfEntry(isBlocked) ELSE @,
                         ![t].rightsActionWrite =
                             IF i # 0 /\ VerdictOfEntry(isBlocked) = "BLOCK"
                             THEN FALSE ELSE @]
           /\ pc' = [pc EXCEPT ![t] = IF i # 0 THEN "count" ELSE "admit"]
    /\ AllowedLock' = NoHolder
    /\ UNCHANGED <<Enabled, queueVars, PendingEvent, registryVars, counterVars,
                   PendingLock, irp, histVars>>

\* lines 224-228: the InterlockedIncrement64 of the registry verdict's counter
ClassifyCount(t) ==
    /\ pc[t] = "count"
    /\ IF call[t].isBlocked
       THEN /\ BlockedConnections' = BlockedConnections + 1
            /\ UNCHANGED AllowedConnections
       ELSE /\ AllowedConnections' = AllowedConnections + 1
            /\ UNCHANGED BlockedConnections
    /\ pc' = [pc EXCEPT ![t] = "done"]
    /\ UNCHANGED <<Enabled, queueVars, PendingEvent, registryVars,
                   TotalConnections, lockVars, call, irp, histVars>>

\* AddPendingConnection line 147: KeAcquireSpinLock(&PendingLock)
ClassifyAcquirePendingLock(t) ==
    /\ pc[t] = "admit"
    /\ PendingLock = NoHolder
    /\ PendingLock' = t
    /\ pc' = [pc EXCEPT ![t] = "inAdmit"]
    /\ UNCHANGED <<Enabled, queueVars, PendingEvent, registryVars, counterVars,
                   AllowedLock, call, irp, histVars>>

\* the record AddPendingConnection writes, lines 152-159
NewPending(t, id, ts) ==
    [connectionId |-> id, processId |-> call[t].processId,
     processPath |-> CopyPath(call[t].processPath),
     remoteIp |-> call[t].remoteIp, remotePort |-> call[t].remotePort,
     timestamp |-> ts, responded |-> FALSE, allowed |-> FALSE]

\* AddPendingConnection lines 149-169 and the verdict of lines 233-237
ClassifyAdmit(t, ts) ==
    /\ pc[t] = "inAdmit"
    /\ PendingLock = t
    /\ IF HasFreeSlot(PendingCount)
       THEN LET id == NextConnectionId(TotalConnections)
                conn == NewPending(t, id, ts)
            IN  /\ TotalConnections' = id
                /\ PendingConnections' =
                       ActiveSlots(StoreAt(PendingConnections, PendingCount + 1, conn),
                                   PendingCount + 1)
                /\ PendingCount' = PendingCount + 1
                /\ PendingEvent' = TRUE
                /\ admitLog' = Append(admitLog, conn)
                /\ call' = [call EXCEPT
                              ![t].connId = id,
                              ![t].actionType = VerdictAfterAdmit(id),
                              ![t].rightsActionWrite =
                                  (VerdictAfterAdmit(id) # "BLOCK")]
       ELSE /\ UNCHANGED <<TotalConnections, queueVars, PendingEvent, admitLog>>
            /\ call' = [call EXCEPT
                          ![t].connId = 0,
                          ![t].actionType = VerdictAfterAdmit(0),
                          ![t].rightsActionWrite =
                              (VerdictAfterAdmit(0) # "BLOCK")]
    /\ PendingLock' = NoHolder
    /\ pc' = [pc EXCEPT ![t] = "done"]
    /\ UNCHANGED <<Enabled, registryVars, BlockedConnections, AllowedConnections,
                   AllowedLock, irp, respondedIds>>

\* the callout returns; the hook enforces classifyOut
ClassifyReturn(t) ==
    /\ pc[t] = "done"
    /\ pc' = [pc EXCEPT ![t] = "idle"]
    /\ call' = [call EXCEPT ![t] = NoCall]
    /\ UNCHANGED <<Enabled, queueVars, PendingEvent, registryVars, counterVars,
                   lockVars, irp, histVars>>

(* ------------------------------------------------------------------ *)
(* NetGuardDeviceControl                                               *)
(* ------------------------------------------------------------------ *)
\* line 399: min(outputLength, PendingCount * sizeof(PENDING_CONNECTION)); the
\* product is at most 256 * 1064 and never wraps a ULONG
CopySize(outputLength, count) ==
    Min(outputLength, count * SizeofPendingConnection)

\* faulty variant: the length test forgets the verdict byte
RespondInputOk_IdOnly(inputLength) == inputLength >= SizeofRespondInput - 1

\* line 411: the Respond input carries a connection id and a verdict
RespondInputOk(inputLength) == inputLength >= SizeofRespondInput

\* line 441: the AddAllowed input carries one ALLOWED_APP
AddInputOk(inputLength) == inputLength >= SizeofAllowedApp

\* faulty variant: a record the registry already holds is not stored again
RegistryHasFreeSlot_Unique(count) ==
    /\ count < MAX_ALLOWED_APPS
    /\ \A i \in 1..count : AllowedApps[i] # irp.newApp

\* faulty variant: the capacity test of the registry is off by one
RegistryHasFreeSlot_OffByOne(count) == count <= MAX_ALLOWED_APPS

\* line 447: the capacity test of the registry
RegistryHasFreeSlot(count) == count < MAX_ALLOWED_APPS

\* faulty variant: the slots behind slot i are not moved down
RemoveAt_NoShift(slots, count, i, allowed) ==
    [j \in 1..count |->
        IF j = i THEN [slots[j] EXCEPT !.responded = TRUE, !.allowed = allowed]
        ELSE slots[j]]

\* faulty variant: the slots are moved down first and slot i is marked afterwards
RemoveAt_MarkAfterMove(slots, count, i, allowed) ==
    [j \in 1..count |->
        LET moved == IF j >= i /\ j < count THEN slots[j + 1] ELSE slots[j]
        IN  IF j = i THEN [moved EXCEPT !.responded = TRUE, !.allowed = allowed]
            ELSE moved]

\* lines 420-428: mark slot i, then move the slots behind it down by one
RemoveAt(slots, count, i, allowed) ==
    [j \in 1..count |->
        IF j >= i /\ j < count THEN slots[j + 1]
        ELSE IF j = i THEN [slots[j] EXCEPT !.responded = TRUE, !.allowed = allowed]
        ELSE slots[j]]

\* lines 386-388 and 462-465
CtlEnable ==
    /\ pc[ControlContext] = "idle"
    /\ Enabled' = TRUE
    /\ irp' = [NoIrp EXCEPT !.code = "ENABLE", !.status = "STATUS_SUCCESS"]
    /\ pc' = [pc EXCEPT ![ControlContext] = "done"]
    /\ UNCHANGED <<queueVars, PendingEvent, registryVars, counterVars, lockVars,
                   call, histVars>>

\* lines 390-392 and 462-465
CtlDisable ==
    /\ pc[ControlContext] = "idle"
    /\ Enabled' = FALSE
    /\ irp' = [NoIrp EXCEPT !.code = "DISABLE", !.status = "STATUS_SUCCESS"]
    /\ pc' = [pc EXCEPT ![ControlContext] = "done"]
    /\ UNCHANGED <<queueVars, PendingEvent, registryVars, counterVars, lockVars,
                   call, histVars>>

\* lines 457-465: any other control code, IOCTL_NETGUARD_REMOVE_ALLOWED included
CtlInvalid(code) ==
    /\ pc[ControlContext] = "idle"
    /\ irp' = [NoIrp EXCEPT !.code = code,
                            !.status = "STATUS_INVALID_DEVICE_REQUEST"]
    /\ pc' = [pc EXCEPT ![ControlContext] = "done"]
    /\ UNCHANGED <<Enabled, queueVars, PendingEvent, registryVars, counterVars,
                   lockVars, call, histVars>>

\* lines 394-397: IOCTL_NETGUARD_GET_PENDING up to and with KeAcquireSpinLock
CtlGetPendingBegin(outputLength) ==
    /\ pc[ControlContext] = "idle"
    /\ PendingLock = NoHolder
    /\ PendingLock' = ControlContext
    /\ irp' = [NoIrp EXCEPT !.code = "GET_PENDING", !.outputLength = outputLength,
                            !.status = "STATUS_SUCCESS"]
    /\ pc' = [pc EXCEPT ![ControlContext] = "held"]
    /\ UNCHANGED <<Enabled, queueVars, PendingEvent, registryVars, counterVars,
                   AllowedLock, call, histVars>>

\* lines 409-416: IOCTL_NETGUARD_RESPOND up to and with KeAcquireSpinLock
CtlRespondBegin(inputLength, connId, allowed) ==
    /\ pc[ControlContext] = "idle"
    /\ RespondInputOk(inputLength) => PendingLock = NoHolder
    /\ PendingLock' = IF RespondInputOk(inputLength) THEN ControlContext ELSE PendingLock
    /\ irp' = IF RespondInputOk(inputLength)
              THEN [NoIrp EXCEPT !.code = "RESPOND", !.inputLength = inputLength,
                                 !.connId = connId, !.allowed = allowed,
                                 !.status = "STATUS_SUCCESS"]
              ELSE [NoIrp EXCEPT !.code = "RESPOND", !.inputLength = inputLength,
                                 !.status = "STATUS_SUCCESS"]
    /\ pc' = [pc EXCEPT ![ControlContext] =
                IF RespondInputOk(inputLength) THEN "held" ELSE "done"]
    /\ UNCHANGED <<Enabled, queueVars, PendingEvent, registryVars, counterVars,
                   AllowedLock, call, histVars>>

\* lines 439-445: IOCTL_NETGUARD_ADD_ALLOWED up to and with KeAcquireSpinLock
CtlAddAllowedBegin(inputLength, newApp) ==
    /\ pc[ControlContext] = "idle"
    /\ AddInputOk(inputLength) => AllowedLock = NoHolder
    /\ AllowedLock' = IF AddInputOk(inputLength) THEN ControlContext ELSE AllowedLock
    /\ irp' = IF AddInputOk(inputLength)
              THEN [NoIrp EXCEPT !.code = "ADD_ALLOWED", !.inputLength = inputLength,
                                 !.newApp = newApp,
                                 !.status = "STATUS_SUCCESS"]
              ELSE [NoIrp EXCEPT !.code = "ADD_ALLOWED", !.inputLength = inputLength,
                                 !.status = "STATUS_SUCCESS"]
    /\ pc' = [pc EXCEPT ![ControlContext] =
                IF AddInputOk(inputLength) THEN "held" ELSE "done"]
    /\ UNCHANGED <<Enabled, queueVars, PendingEvent, registryVars, counterVars,
                   PendingLock, call, histVars>>

\* faulty variant: the request completes without KeReleaseSpinLock
CtlGetPending_KeepLock ==
    /\ pc[ControlContext] = "held"
    /\ irp.code = "GET_PENDING"
    /\ PendingLock = ControlContext
    /\ irp' = [irp EXCEPT
                 !.bytesReturned = CopySize(irp.outputLength, PendingCount)]
    /\ pc' = [pc EXCEPT ![ControlContext] = "done"]
    /\ UNCHANGED <<Enabled, queueVars, PendingEvent, registryVars, counterVars,
                   lockVars, call, histVars>>

\* lines 399-405 and 462-465: RtlCopyMemory of the first copySize bytes of the
\* array; the caller receives them with Information = bytesReturned
CtlGetPending ==
    /\ pc[ControlContext] = "held"
    /\ irp.code = "GET_PENDING"
    /\ PendingLock = ControlContext
    /\ irp' = [irp EXCEPT
                 !.bytesReturned = CopySize(irp.outputLength, PendingCount)]
    /\ PendingLock' = NoHolder
    /\ pc' = [pc EXCEPT ![ControlContext] = "done"]
    /\ UNCHANGED <<Enabled, queueVars, PendingEvent, registryVars, counterVars,
                   AllowedLock, call, histVars>>

\* faulty variant: the verdict of a respond is written back to the registry
CtlRespond_WriteBack ==
    /\ pc[ControlContext] = "held"
    /\ irp.code = "RESPOND"
    /\ PendingLock = ControlContext
    /\ LET i == RespondIndex(irp.connId)
       IN  IF i # 0
           THEN /\ PendingConnections' =
                       ActiveSlots(RemoveAt(PendingConnections, PendingCount, i,
                                            irp.allowed),
                                   PendingCount - 1)
                /\ PendingCount' = PendingCount - 1
                /\ respondedIds' = respondedIds \cup {irp.connId}
                /\ irp' = [irp EXCEPT !.matched = TRUE]
                /\ IF RegistryHasFreeSlot(AllowedCount)
                   THEN /\ AllowedApps' =
                              [AllowedApps EXCEPT ![AllowedCount + 1] =
                                  [processPath |-> PendingConnections[i].processPath,
                                   blocked |-> ~irp.allowed]]
                        /\ AllowedCount' = AllowedCount + 1
                   ELSE UNCHANGED registryVars
           ELSE /\ UNCHANGED <<queueVars, respondedIds, irp, registryVars>>
    /\ PendingLock' = NoHolder
    /\ pc' = [pc EXCEPT ![ControlContext] = "done"]
    /\ UNCHANGED <<Enabled, PendingEvent, counterVars, AllowedLock, call, admitLog>>

\* lines 418-434 and 462-465
CtlRespond ==
    /\ pc[ControlContext] = "held"
    /\ irp.code = "RESPOND"
    /\ PendingLock = ControlContext
    /\ LET i == RespondIndex(irp.connId)
       IN  IF i # 0
           THEN /\ PendingConnections' =
                       ActiveSlots(RemoveAt(PendingConnections, PendingCount, i,
                                            irp.allowed),
                                   PendingCount - 1)
                /\ PendingCount' = PendingCount - 1
                /\ respondedIds' = respondedIds \cup {irp.connId}
                /\ irp' = [irp EXCEPT !.matched = TRUE]
           ELSE /\ UNCHANGED <<queueVars, respondedIds, irp>>
    /\ PendingLock' = NoHolder
    /\ pc' = [pc EXCEPT ![ControlContext] = "done"]
    /\ UNCHANGED <<Enabled, PendingEvent, registryVars, counterVars, AllowedLock,
                   call, admitLog>>

\* faulty variant: an entry for the same path is updated in place
CtlAddAllowed_Update ==
    /\ pc[ControlContext] = "held"
    /\ irp.code = "ADD_ALLOWED"
    /\ AllowedLock = ControlContext
    /\ IF FirstMatch(irp.newApp.processPath) # 0
       THEN /\ AllowedApps' =
                  [AllowedApps EXCEPT ![FirstMatch(irp.newApp.processPath)] = irp.newApp]
            /\ UNCHANGED AllowedCount
       ELSE IF RegistryHasFreeSlot(AllowedCount)
       THEN /\ AllowedApps' = [AllowedApps EXCEPT ![AllowedCount + 1] = irp.newApp]
            /\ AllowedCount' = AllowedCount + 1
       ELSE UNCHANGED registryVars
    /\ AllowedLock' = NoHolder
    /\ pc' = [pc EXCEPT ![ControlContext] = "done"]
    /\ UNCHANGED <<Enabled, queueVars, PendingEvent, counterVars, PendingLock,
                   call, irp, histVars>>

\* lines 447-452 and 462-465
CtlAddAllowed ==
    /\ pc[ControlContext] = "held"
    /\ irp.code = "ADD_ALLOWED"
    /\ AllowedLock = ControlContext
    /\ IF RegistryHasFreeSlot(AllowedCount)
       THEN /\ AllowedApps' = [AllowedApps EXCEPT ![AllowedCount + 1] = irp.newApp]
            /\ AllowedCount' = AllowedCount + 1
       ELSE UNCHANGED registryVars
    /\ AllowedLock' = NoHolder
    /\ pc' = [pc EXCEPT ![ControlContext] = "done"]
    /\ UNCHANGED <<Enabled, queueVars, PendingEvent, counterVars, PendingLock,
                   call, irp, histVars>>

\* line 466: the request is completed and the caller has its status and output
CtlReturn ==
    /\ pc[ControlContext] = "done"
    /\ pc' = [pc EXCEPT ![ControlContext] = "idle"]
    /\ irp' = NoIrp
    /\ UNCHANGED <<Enabled, queueVars, PendingEvent, registryVars, counterVars,
                   lockVars, call, histVars>>

(* ------------------------------------------------------------------ *)
(* Specification                                                       *)
(* ------------------------------------------------------------------ *)
\* the steps of a classification that no registry entry decides
ClassifyUnregistered(t) ==
    \/ \E processId \in ProcessIds, path \in ClassifyPaths,
          ip \in RemoteIps, port \in RemotePorts :
          ClassifyBegin(t, processId, path, ip, port)
    \/ ClassifyAcquireAllowedLock(t)
    \/ ClassifyLookup(t)
    \/ ClassifyAcquirePendingLock(t)
    \/ \E ts \in Timestamps : ClassifyAdmit(t, ts)
    \/ ClassifyReturn(t)

Classify(t) == ClassifyUnregistered(t) \/ ClassifyCount(t)

\* the control requests that do not write the registry
ControlWithoutAdd ==
    \/ CtlEnable
    \/ CtlDisable
    \/ CtlInvalid("REMOVE_ALLOWED")
    \/ \E outputLength \in OutputLengths : CtlGetPendingBegin(outputLength)
    \/ \E inputLength \in RespondInputLengths, connId \in ConnectionIds,
          allowed \in BOOLEAN : CtlRespondBegin(inputLength, connId, allowed)
    \/ CtlGetPending
    \/ CtlRespond
    \/ CtlReturn

Control ==
    \/ ControlWithoutAdd
    \/ \E inputLength \in AddInputLengths, newApp \in RegistryInputs :
          CtlAddAllowedBegin(inputLength, newApp)
    \/ CtlAddAllowed

\* one classification at a time, concurrent with the control context
Next == Classify(FirstContext) \/ Control

Spec == Init /\ [][Next]_vars

\* two concurrent classifications, concurrent with the control context
NextConcurrent == (\E t \in ClassifyContexts : Classify(t)) \/ Control

SpecConcurrent == Init /\ [][NextConcurrent]_vars

\* two concurrent classifications and the control context while the agent
\* registers nothing: every filtered classification reaches admission
NextQueue ==
    (\E t \in ClassifyContexts : ClassifyUnregistered(t)) \/ ControlWithoutAdd

SpecQueue == Init /\ [][NextQueue]_vars

\* Scheduling.  A context that spins in KeAcquireSpinLock retests the lock
\* without pause, so it gets a lock that is free again and again (strong
\* fairness); a context inside the callout or inside a critical section runs
\* at raised IRQL through straight-line code and bounded loops, so it takes
\* its next step (weak fairness).  Nothing obliges the hook to deliver a
\* connection or the agent to send a request.
Fairness ==
    /\ \A t \in ClassifyContexts :
          /\ SF_vars(ClassifyAcquireAllowedLock(t) \/ ClassifyAcquirePendingLock(t))
          /\ WF_vars(\/ ClassifyLookup(t)
                     \/ ClassifyCount(t)
                     \/ \E ts \in Timestamps : ClassifyAdmit(t, ts))
    /\ WF_vars(CtlGetPending \/ CtlRespond \/ CtlAddAllowed)

\* Two concurrent classifications of a user process against every kind of
\* control request, each request well-formed and with one input, a respond
\* with the id of the first admission: what a context waits for is a lock,
\* whatever the request carries.
NextFair ==
    \/ \E t \in ClassifyContexts :
          \/ \E path \in ClassifyPaths, ip \in RemoteIps, port \in RemotePorts :
                ClassifyBegin(t, 100, path, ip, port)
          \/ ClassifyAcquireAllowedLock(t)
          \/ ClassifyLookup(t)
          \/ ClassifyCount(t)
          \/ ClassifyAcquirePendingLock(t)
          \/ \E ts \in Timestamps : ClassifyAdmit(t, ts)
          \/ ClassifyReturn(t)
    \/ CtlEnable
    \/ CtlDisable
    \/ CtlGetPendingBegin(0)
    \/ CtlRespondBegin(SizeofRespondInput, 1, TRUE)
    \/ CtlAddAllowedBegin(SizeofAllowedApp,
                          [processPath |-> PathUpperA, blocked |-> TRUE])
    \/ CtlGetPending
    \/ CtlRespond
    \/ CtlAddAllowed
    \/ CtlReturn

SpecFair == Init /\ [][NextFair]_vars /\ Fairness

(* ================================================================== *)
(* Properties                                                          *)
(* ================================================================== *)
\* context t takes a step
Stepped(t) == pc'[t] # pc[t]

\* the verdict counters, the pending queue and the registry
arbitrationVars == <<counterVars, queueVars, registryVars>>

\* case-insensitive equality of two paths, code unit by code unit
SamePath(p, q) ==
    /\ Len(p) = Len(q)
    /\ \A k \in 1..Len(p) :
          (IF p[k] \in 65..90 THEN p[k] + 32 ELSE p[k])
              = (IF q[k] \in 65..90 THEN q[k] + 32 ELSE q[k])

\* indices of the registry entries for a path
EntriesFor(path) ==
    {i \in 1..AllowedCount : SamePath(AllowedApps[i].processPath, path)}

\* a classification that saw enforcement enabled for a process that is neither
\* the idle process nor the System process
Filtered(t) == call[t].enabledSeen /\ call[t].processId \notin {0, 4}

\* ids of every PendingConnection ever admitted
IssuedIds == {admitLog[k].connectionId : k \in 1..Len(admitLog)}

(* ---- C1 ---------------------------------------------------------- *)
\* C1 (as specified): an admission attempted for an unknown path while the queue
\* holds MAX_PENDING_CONNECTIONS entries ends with the verdict BLOCK, with
\* BlockedConnections one higher, and with nothing enqueued.
FailClosedUnderSaturation ==
    [][\A t \in ClassifyContexts :
          (pc[t] = "inAdmit" /\ Stepped(t) /\ Filtered(t) /\ ~call[t].found
             /\ PendingCount = MAX_PENDING_CONNECTIONS)
          => /\ call'[t].actionType = "BLOCK"
             /\ BlockedConnections' = BlockedConnections + 1
             /\ UNCHANGED queueVars]_vars

(* ---- C2 ---------------------------------------------------------- *)
\* C2: a classification with enforcement enabled, a processId other than 0 and
\* 4 and a path without registry entry goes on to admission; when the queue is
\* below capacity there, the verdict is BLOCK and exactly one PendingConnection
\* is appended, whose id no earlier PendingConnection had.
DefaultBlockUnknown ==
    /\ [][\A t \in ClassifyContexts :
            (pc[t] = "idle" /\ Stepped(t) /\ Enabled
               /\ call'[t].processId \notin {0, 4})
            => pc'[t] = "lookup"]_vars
    /\ [][\A t \in ClassifyContexts :
            (pc[t] = "inList" /\ Stepped(t) /\ EntriesFor(call[t].processPath) = {})
            => pc'[t] = "admit" /\ call'[t].actionType = "PERMIT"]_vars
    /\ [][\A t \in ClassifyContexts :
            (pc[t] = "inAdmit" /\ Stepped(t)
               /\ PendingCount < MAX_PENDING_CONNECTIONS)
            => /\ call'[t].actionType = "BLOCK"
               /\ pc'[t] = "done"
               /\ PendingCount' = PendingCount + 1
               /\ \A k \in 1..PendingCount :
                     PendingConnections'[k] = PendingConnections[k]
               /\ PendingConnections'[PendingCount'].connectionId \notin IssuedIds
               /\ PendingConnections'[PendingCount'].connectionId = call'[t].connId
               /\ PendingConnections'[PendingCount'].processId = call[t].processId
               /\ PendingConnections'[PendingCount'].processPath
                     = call[t].processPath]_vars
    /\ [](\A t \in ClassifyContexts :
            pc[t] \in {"admit", "inAdmit"} => Filtered(t) /\ ~call[t].found)

\* an unknown path was blocked and queued behind an earlier admission
DefaultBlockUnknownWitness ==
    \E t \in ClassifyContexts :
        /\ pc[t] = "done"
        /\ Filtered(t)
        /\ ~call[t].found
        /\ call[t].actionType = "BLOCK"
        /\ call[t].connId > 0
        /\ Len(admitLog) >= 2
        /\ PendingCount >= 1
        /\ PendingConnections[PendingCount].connectionId = call[t].connId

(* ---- C3 ---------------------------------------------------------- *)
\* the registry has an entry with this verdict for the path
HoldsEntry(path, blocked) ==
    \E i \in EntriesFor(path) : AllowedApps[i].blocked = blocked

\* C3 (as specified): the lookup of a filtered classification gives BLOCK when
\* the registry holds a Block entry for the path and PERMIT when it holds an
\* Allow entry, and leaves the pending queue unchanged.
RegistryPrecedence ==
    [][\A t \in ClassifyContexts :
          (pc[t] = "inList" /\ Stepped(t))
          => /\ HoldsEntry(call[t].processPath, TRUE)
                   => call'[t].actionType = "BLOCK" /\ UNCHANGED queueVars
             /\ HoldsEntry(call[t].processPath, FALSE)
                   => call'[t].actionType = "PERMIT" /\ UNCHANGED queueVars]_vars

\* C3 (amended): the lookup of a filtered classification gives the verdict of
\* the earliest registry entry for the path, BLOCK for a Block entry and PERMIT
\* for an Allow entry; the classification then only counts the verdict and
\* returns it, and the pending queue is unchanged throughout.
RegistryPrecedenceOfFirstEntry ==
    /\ [][\A t \in ClassifyContexts :
            (pc[t] = "inList" /\ Stepped(t)
               /\ EntriesFor(call[t].processPath) # {})
            => LET entries == EntriesFor(call[t].processPath)
                   first == CHOOSE i \in entries : \A j \in entries : i <= j
               IN  /\ call'[t].actionType =
                          (IF AllowedApps[first].blocked THEN "BLOCK" ELSE "PERMIT")
                   /\ pc'[t] = "count"
                   /\ UNCHANGED queueVars]_vars
    /\ [][\A t \in ClassifyContexts :
            (pc[t] = "count" /\ Stepped(t))
            => /\ pc'[t] = "done"
               /\ call'[t] = call[t]
               /\ UNCHANGED queueVars]_vars
    /\ [](\A t \in ClassifyContexts :
            pc[t] \in {"lookup", "inList", "count"} => Filtered(t))

\* a Block entry registered before an Allow entry for the same path decided a
\* classification while the pending queue was full
RegistryPrecedenceWitness ==
    \E t \in ClassifyContexts :
        /\ pc[t] = "done"
        /\ Filtered(t)
        /\ call[t].found
        /\ call[t].actionType = "BLOCK"
        /\ PendingCount = MAX_PENDING_CONNECTIONS
        /\ AllowedCount = 2
        /\ EntriesFor(call[t].processPath) = {1, 2}
        /\ AllowedApps[1].blocked
        /\ ~AllowedApps[2].blocked

(* ---- C4 ---------------------------------------------------------- *)
\* a classification that returns changes nothing on its way out
ReturnChangesNothing ==
    \A t \in ClassifyContexts :
        (pc[t] = "done" /\ Stepped(t)) => UNCHANGED arbitrationVars

\* C4: a classification that reads Enabled = FALSE returns PERMIT at once and
\* leaves the three counters, the pending queue and the registry unchanged,
\* whatever the process, the path and the registry are.
DisabledPassthrough ==
    /\ [][\A t \in ClassifyContexts :
            (pc[t] = "idle" /\ Stepped(t) /\ ~Enabled)
            => /\ pc'[t] = "done"
               /\ call'[t].actionType = "PERMIT"
               /\ ~call'[t].enabledSeen
               /\ UNCHANGED arbitrationVars]_vars
    /\ [][ReturnChangesNothing]_vars

\* a user process was permitted while disabled although the registry blocks
\* the classified path and connections are pending
DisabledPassthroughWitness ==
    \E t \in ClassifyContexts :
        /\ pc[t] = "done"
        /\ ~call[t].enabledSeen
        /\ call[t].processId = 100
        /\ call[t].actionType = "PERMIT"
        /\ ~Enabled
        /\ HoldsEntry(PathLowerA, TRUE)
        /\ PendingCount > 0

(* ---- C5 ---------------------------------------------------------- *)
\* C5: a classification for processId 0 or 4 returns PERMIT at once, enqueues
\* nothing and changes no counter, with enforcement enabled or disabled and
\* whatever the registry holds for the path.
SystemProcessExemption ==
    /\ [][\A t \in ClassifyContexts :
            (pc[t] = "idle" /\ Stepped(t) /\ call'[t].processId \in {0, 4})
            => /\ pc'[t] = "done"
               /\ call'[t].actionType = "PERMIT"
               /\ UNCHANGED <<counterVars, queueVars>>]_vars
    /\ [][\A t \in ClassifyContexts :
            (pc[t] = "done" /\ Stepped(t)) => UNCHANGED <<counterVars, queueVars>>]_vars

\* the System process was permitted with enforcement enabled although the
\* registry blocks the classified path
SystemProcessExemptionWitness ==
    \E t \in ClassifyContexts :
        /\ pc[t] = "done"
        /\ call[t].enabledSeen
        /\ call[t].processId = 4
        /\ call[t].actionType = "PERMIT"
        /\ HoldsEntry(call[t].processPath, TRUE)
        /\ Len(call[t].processPath) > 0

(* ---- C6 ---------------------------------------------------------- *)
\* C6: the connection ids of successive admissions are strictly increasing, so
\* none is assigned twice, whatever classifications and responds interleave.
IdMonotonicity ==
    \A i, j \in 1..Len(admitLog) :
        i < j => admitLog[i].connectionId < admitLog[j].connectionId

\* two concurrent classifications were admitted into a queue that had filled,
\* was drained by a respond and is full again
IdMonotonicityWitness ==
    /\ Len(admitLog) > MAX_PENDING_CONNECTIONS
    /\ PendingCount = MAX_PENDING_CONNECTIONS
    /\ respondedIds # {}
    /\ \A t \in ClassifyContexts : pc[t] = "done" /\ call[t].connId > 0
    /\ \E t, u \in ClassifyContexts : call[t].connId < call[u].connId

(* ---- C7 ---------------------------------------------------------- *)
\* the control context completes the critical section of a request
CtlBody(code) ==
    pc[ControlContext] = "held" /\ irp.code = code /\ Stepped(ControlContext)

\* C7: the queue never holds more than MAX_PENDING_CONNECTIONS entries; an
\* admission attempted at capacity creates no PendingConnection; GET_PENDING
\* with room for the whole queue then returns exactly capacity records.
QueueBound ==
    /\ [](PendingCount <= MAX_PENDING_CONNECTIONS
            /\ Len(PendingConnections) = PendingCount)
    /\ [][\A t \in ClassifyContexts :
            (pc[t] = "inAdmit" /\ Stepped(t)
               /\ PendingCount = MAX_PENDING_CONNECTIONS)
            => /\ UNCHANGED <<queueVars, admitLog, TotalConnections>>
               /\ call'[t].connId = 0]_vars
    /\ [][(CtlBody("GET_PENDING")
             /\ PendingCount = MAX_PENDING_CONNECTIONS
             /\ irp.outputLength
                   >= MAX_PENDING_CONNECTIONS * SizeofPendingConnection)
          => /\ irp'.bytesReturned
                   = MAX_PENDING_CONNECTIONS * SizeofPendingConnection
             /\ UNCHANGED queueVars]_vars

\* an admission was turned away by the full queue and GET_PENDING then
\* returned capacity records
QueueBoundWitness ==
    /\ PendingCount = MAX_PENDING_CONNECTIONS
    /\ \E t \in ClassifyContexts :
          /\ pc[t] = "done"
          /\ Filtered(t)
          /\ ~call[t].found
          /\ call[t].connId = 0
    /\ pc[ControlContext] = "done"
    /\ irp.code = "GET_PENDING"
    /\ irp.bytesReturned = MAX_PENDING_CONNECTIONS * SizeofPendingConnection

(* ---- C8 ---------------------------------------------------------- *)
\* the admitted records, in admission order, whose id no respond has named
Unresolved ==
    LET Open(e) == e.connectionId \notin respondedIds
    IN  SelectSeq(admitLog, Open)

ResolveIdempotence ==
    [][CtlBody("RESPOND")
       => /\ irp.connId \in ActiveIds
                => /\ irp'.status = "STATUS_SUCCESS"
                   /\ PendingCount' = PendingCount - 1
          /\ irp.connId \in respondedIds
                => /\ irp'.status # "STATUS_SUCCESS"
                   /\ UNCHANGED arbitrationVars]_vars

\* C9 (amended): respond for a pending id completes with STATUS_SUCCESS and
\* removes that entry; respond for an id that an earlier respond removed also
\* completes with STATUS_SUCCESS, finds nothing and changes nothing.
ResolveIdempotenceSilent ==
    /\ [][CtlBody("RESPOND")
          => /\ irp.connId \in ActiveIds
                   => /\ irp'.status = "STATUS_SUCCESS"
                      /\ PendingCount' = PendingCount - 1
                      /\ irp.connId \notin
                            {PendingConnections'[k].connectionId :
                                k \in 1..PendingCount'}
             /\ irp.connId \in respondedIds
                   => /\ irp'.status = "STATUS_SUCCESS"
                      /\ ~irp'.matched
                      /\ UNCHANGED arbitrationVars]_vars
    /\ [](respondedIds \cap ActiveIds = {})

\* a second respond for a removed id completed while entries were pending
ResolveIdempotenceWitness ==
    /\ pc[ControlContext] = "done"
    /\ irp.code = "RESPOND"
    /\ irp.connId \in respondedIds
    /\ ~irp.matched
    /\ irp.status = "STATUS_SUCCESS"
    /\ PendingCount > 0

(* ---- C10 --------------------------------------------------------- *)
\* C10 (as specified): GET_PENDING returns the longest prefix of the queue made
\* of complete records that fit the output length, and leaves the queue
\* unchanged.
GetPendingWholeRecords ==
    [][CtlBody("GET_PENDING")
       => /\ irp'.bytesReturned =
                SizeofPendingConnection
                  * Min(irp.outputLength \div SizeofPendingConnection, PendingCount)
          /\ UNCHANGED queueVars]_vars

(* ---- C11 --------------------------------------------------------- *)
\* a disable request has completed and no enable request has followed it
DisableCompleted ==
    ~Enabled /\ ~(pc[ControlContext] = "done" /\ irp.code = "DISABLE")

\* C11 (as specified): from the completion of a disable request until the next
\* enable request no PendingConnection is added to the queue, and the queued
\* entries stay queued: only a respond takes one out.
NoAdmissionWhileDisabled ==
    [][DisableCompleted
       => /\ admitLog' = admitLog
          /\ PendingCount' >= PendingCount \/ CtlBody("RESPOND")]_vars

(* ---- C12 --------------------------------------------------------- *)
\* C12 (as specified): the registry holds at most one entry per
\* case-insensitive path.
RegistryUniqueness ==
    \A i, j \in 1..AllowedCount :
        SamePath(AllowedApps[i].processPath, AllowedApps[j].processPath) => i = j

\* C12 (amended): an add request of full length appends its record whenever
\* the registry is below capacity, also when an entry for the same path, even
\* an identical one, is present; the entries already held are unchanged.
RegistryAppendsDuplicates ==
    [][(CtlBody("ADD_ALLOWED") /\ AllowedCount < MAX_ALLOWED_APPS)
       => /\ AllowedCount' = AllowedCount + 1
          /\ AllowedApps'[AllowedCount'] = irp.newApp
          /\ \A i \in 1..AllowedCount : AllowedApps'[i] = AllowedApps[i]]_vars

\* the registry holds the same path with the same verdict twice
RegistryAppendsDuplicatesWitness ==
    /\ AllowedCount >= 2
    /\ AllowedApps[1] = AllowedApps[2]
    /\ pc[ControlContext] = "done"
    /\ irp.code = "ADD_ALLOWED"
    /\ irp.newApp = AllowedApps[2]

(* ---- C13 --------------------------------------------------------- *)
\* C13 (as specified): the registry never holds more than MAX_ALLOWED_APPS
\* entries; an add at capacity stores nothing, changes no entry and is reported
\* as a failure, not as a success.
RegistryCapacity ==
    /\ [](AllowedCount <= MAX_ALLOWED_APPS)
    /\ [][(CtlBody("ADD_ALLOWED") /\ AllowedCount = MAX_ALLOWED_APPS)
          => /\ UNCHANGED registryVars
             /\ irp'.status # "STATUS_SUCCESS"]_vars

\* C13 (amended): the registry never holds more than MAX_ALLOWED_APPS entries;
\* an add at capacity stores nothing, changes no entry and completes with
\* STATUS_SUCCESS and no output, as an add that stored its record does.
RegistryCapacitySilent ==
    /\ [](AllowedCount <= MAX_ALLOWED_APPS)
    /\ [][CtlBody("ADD_ALLOWED")
          => /\ irp'.status = "STATUS_SUCCESS"
             /\ irp'.bytesReturned = 0
             /\ AllowedCount = MAX_ALLOWED_APPS => UNCHANGED registryVars]_vars

\* an add of a record the registry does not hold completed at capacity
RegistryCapacityWitness ==
    /\ pc[ControlContext] = "done"
    /\ irp.code = "ADD_ALLOWED"
    /\ irp.inputLength >= SizeofAllowedApp
    /\ irp.status = "STATUS_SUCCESS"
    /\ AllowedCount = MAX_ALLOWED_APPS
    /\ \A i \in 1..AllowedCount : AllowedApps[i] # irp.newApp

(* ---- C14 --------------------------------------------------------- *)
\* C14: the registry changes only in the critical section of an add request,
\* and then by one appended entry; classifications and responds leave it as
\* it is.  So with an empty registry the first admission is blocked with id 1,
\* and after respond removed id 1 a classification of the same path is
\* not found in the registry and is blocked again with id 2.
RegistryWrittenOnlyByAdd ==
    /\ [][registryVars' # registryVars
          => /\ CtlBody("ADD_ALLOWED")
             /\ AllowedCount' = AllowedCount + 1
             /\ \A i \in 1..AllowedCount : AllowedApps'[i] = AllowedApps[i]]_vars
    /\ [][\A t \in ClassifyContexts :
            (pc[t] = "inList" /\ Stepped(t) /\ AllowedCount = 0)
            => pc'[t] = "admit" /\ ~call'[t].found]_vars
    /\ [][\A t \in ClassifyContexts :
            (pc[t] = "inAdmit" /\ Stepped(t) /\ admitLog = <<>>)
            => call'[t].actionType = "BLOCK" /\ call'[t].connId = 1]_vars
    /\ [][\A t \in ClassifyContexts :
            (pc[t] = "inAdmit" /\ Stepped(t) /\ Len(admitLog) = 1
               /\ admitLog[1].processPath = call[t].processPath
               /\ respondedIds = {1})
            => /\ call'[t].actionType = "BLOCK"
               /\ call'[t].connId = 2
               /\ PendingCount' = 1
               /\ PendingConnections'[1].connectionId = 2]_vars

\* id 1 was resolved as allowed, the registry is still empty, and the next
\* classification of the same path was blocked with id 2
RegistryWrittenOnlyByAddWitness ==
    /\ AllowedCount = 0
    /\ pc[ControlContext] = "done"
    /\ irp.code = "RESPOND"
    /\ irp.connId = 1
    /\ irp.allowed
    /\ irp.matched
    /\ Len(admitLog) = 2
    /\ admitLog[1].processPath = admitLog[2].processPath
    /\ \E t \in ClassifyContexts :
          /\ pc[t] = "done"
          /\ call[t].actionType = "BLOCK"
          /\ call[t].connId = 2

(* ---- C16 --------------------------------------------------------- *)
\* the request the control context has just taken up is a respond or an add
\* shorter than its record, or carries a control code the switch does not know
MalformedRequest(r) ==
    \/ r.code = "RESPOND" /\ r.inputLength < SizeofRespondInput
    \/ r.code = "ADD_ALLOWED" /\ r.inputLength < SizeofAllowedApp
    \/ r.code \notin {"ENABLE", "DISABLE", "GET_PENDING", "RESPOND", "ADD_ALLOWED"}

\* C16: a malformed control request goes from dispatch straight to completion
\* and neither step changes the registry, the pending queue, the Enabled flag,
\* a counter or a lock.
MalformedInputIgnored ==
    /\ [][(pc[ControlContext] = "idle" /\ Stepped(ControlContext)
             /\ MalformedRequest(irp'))
          => /\ pc'[ControlContext] = "done"
             /\ UNCHANGED <<Enabled, arbitrationVars, lockVars>>]_vars
    /\ [][(pc[ControlContext] = "done" /\ Stepped(ControlContext))
          => UNCHANGED <<Enabled, arbitrationVars, lockVars>>]_vars

\* a respond request one byte short completed while entries were pending and
\* the registry held an entry
MalformedInputIgnoredWitness ==
    /\ pc[ControlContext] = "done"
    /\ irp.code = "RESPOND"
    /\ irp.inputLength = SizeofRespondInput - 1
    /\ PendingCount > 0
    /\ AllowedCount > 0

(* ---- C17 --------------------------------------------------------- *)
\* C17: no context holds AllowedLock and PendingLock at the same time; a
\* classification on its way to or in admission has released AllowedLock, and
\* the control context holds a lock only inside the one critical section of
\* its request.
LocksNeverNested ==
    /\ \A c \in ClassifyContexts \cup {ControlContext} :
          ~(AllowedLock = c /\ PendingLock = c)
    /\ \A t \in ClassifyContexts :
          /\ pc[t] \in {"admit", "inAdmit"} => AllowedLock # t
          /\ PendingLock = t => pc[t] = "inAdmit"
          /\ AllowedLock = t => pc[t] = "inList"
    /\ (AllowedLock = ControlContext \/ PendingLock = ControlContext)
          => pc[ControlContext] = "held"

\* both locks are held at once, by different contexts
LocksNeverNestedWitness ==
    /\ AllowedLock \in ClassifyContexts
    /\ PendingLock = ControlContext
    /\ irp.code = "RESPOND"

(* ---- C18 --------------------------------------------------------- *)
\* the verdict of the entry added earliest among those for a path
EarliestBlocked(path) ==
    LET entries == EntriesFor(path)
    IN  AllowedApps[CHOOSE i \in entries : \A j \in entries : i <= j].blocked

\* C18: the lookup of a path with one or more registry entries reports the
\* verdict of the entry added earliest, and an add request never changes that
\* verdict for a path that already has an entry.
FirstMatchWins ==
    /\ [][\A t \in ClassifyContexts :
            (pc[t] = "inList" /\ Stepped(t)
               /\ EntriesFor(call[t].processPath) # {})
            => /\ call'[t].found
               /\ call'[t].isBlocked = EarliestBlocked(call[t].processPath)]_vars
    /\ [][CtlBody("ADD_ALLOWED")
          => \A path \in ClassifyPaths \cup {PathUpperA, PathLowerB} :
                EntriesFor(path) # {}
                => /\ EntriesFor(path)' # {}
                   /\ EarliestBlocked(path)' = EarliestBlocked(path)]_vars

\* an Allow entry registered before a Block entry for the same path decided a
\* classification
FirstMatchWinsWitness ==
    /\ AllowedCount = 2
    /\ ~AllowedApps[1].blocked
    /\ AllowedApps[2].blocked
    /\ \E t \in ClassifyContexts :
          /\ pc[t] = "done"
          /\ EntriesFor(call[t].processPath) = {1, 2}
          /\ call[t].found
          /\ ~call[t].isBlocked
          /\ call[t].actionType = "PERMIT"

(* ---- C19 --------------------------------------------------------- *)
\* C19: every slot below PendingCount has responded = FALSE and
\* allowed = FALSE, and GET_PENDING returns bytes of those slots only, so the
\* verdict given to a respond is in no record a later GET_PENDING returns.
ActiveNeverResolved ==
    /\ [](\A i \in 1..PendingCount :
             ~PendingConnections[i].responded /\ ~PendingConnections[i].allowed)
    /\ [][CtlBody("GET_PENDING")
          => irp'.bytesReturned <= PendingCount * SizeofPendingConnection]_vars

\* a respond with verdict allowed removed an entry in front of one that is
\* still pending
ActiveNeverResolvedWitness ==
    /\ pc[ControlContext] = "done"
    /\ irp.code = "RESPOND"
    /\ irp.matched
    /\ irp.allowed
    /\ PendingCount >= 1
    /\ PendingConnections[1].connectionId > irp.connId

(* ---- C20 --------------------------------------------------------- *)
\* C20: TotalConnections is the number of records ever admitted and the
\* largest id ever issued, 0 before the first admission; it changes only in an
\* admission that finds a free slot, and then by one.
TotalCountsAdmissions ==
    /\ [](/\ TotalConnections = Len(admitLog)
          /\ \A k \in 1..Len(admitLog) :
                admitLog[k].connectionId <= TotalConnections
          /\ admitLog # <<>> => TotalConnections \in IssuedIds)
    /\ [][TotalConnections' # TotalConnections
          => /\ TotalConnections' = TotalConnections + 1
             /\ Len(admitLog') = Len(admitLog) + 1
             /\ PendingCount < MAX_PENDING_CONNECTIONS
             /\ \E t \in ClassifyContexts :
                   /\ pc[t] = "inAdmit"
                   /\ Stepped(t)
                   /\ Filtered(t)
                   /\ ~call[t].found]_vars

\* two admissions, one of them resolved, and a classification decided by the
\* registry have happened
TotalCountsAdmissionsWitness ==
    /\ TotalConnections = 2
    /\ Len(admitLog) = 2
    /\ respondedIds # {}
    /\ BlockedConnections + AllowedConnections >= 1

====
